---- MODULE Spec2Model ----
(***************************************************************************)
(* Model of the batched, rate-aware market-data fetcher                    *)
(* AngelOneService.get_market_data_batch (backend/services/angel_one.py).  *)
(*                                                                         *)
(* One call of the fetcher is modelled as a sequential process whose       *)
(* control locations (pc) are the suspend points of the Python function:   *)
(* the upstream call, the backoff sleep, the pacing sleep and the return.  *)
(* The upstream is an adversary that answers every request with any        *)
(* envelope, no response object, or an exception.                          *)
(*                                                                         *)
(* The strike window selector (InstrumentService.get_option_symbols), the   *)
(* chain assembler (get_option_chain, TradeAdvisor._get_option_chain) and  *)
(* the functions of backend/services/greeks.py (bs_price, compute_iv,      *)
(* compute_greeks) are further, independent processes with their own       *)
(* specifications: WindowSpec, ChainSpec and GreeksSpec.  While one        *)
(* process runs the variables of the others rest at their idle values.     *)
(***************************************************************************)
EXTENDS Integers, Sequences, FiniteSets, TLC

\* ------------------------------------------------------------------ bounds
\* Longest token list handed to the fetcher (two batches of batch_size).
MaxTokens == 7

\* Largest strike_range handed to the strike window selector.
MaxRadius == 2

\* ------------------------------------------------------- program constants
batch_size == 5
max_retries == 3
base_delay == 1

\* ------------------------------------------------------------------ helpers
Range(s) == {s[i] : i \in 1..Len(s)}

Min(a, b) == IF a < b THEN a ELSE b

RECURSIVE Pow2(_)
Pow2(k) == IF k = 0 THEN 1 ELSE 2 * Pow2(k - 1)

RECURSIVE SumOver(_, _)
SumOver(f, S) ==
    IF S = {} THEN 0
    ELSE LET x == CHOOSE y \in S : TRUE IN f[x] + SumOver(f, S \ {x})

\* Token lists a caller may pass: tokens are exchange identifiers; a list is
\* either duplicate-free or repeats its tokens with period batch_size (the
\* same token then sits in two different batches).
TokenLists ==
    {[i \in 1..n |-> i] : n \in 0..MaxTokens}
        \cup {[i \in 1..n |-> ((i - 1) % batch_size) + 1] : n \in 0..MaxTokens}

\* Variant: only full batches are planned, a shorter rest is left out.
BatchesDropRemainder(toks) ==
    [k \in 1..(Len(toks) \div batch_size) |->
        SubSeq(toks, (k - 1) * batch_size + 1, k * batch_size)]

\* tokens[i:i + batch_size] for i in range(0, len(tokens), batch_size)
Batches(toks) ==
    LET starts == {i \in 0..(Len(toks) - 1) : i % batch_size = 0}
    IN  [k \in 1..Cardinality(starts) |->
            SubSeq(toks, (k - 1) * batch_size + 1,
                   Min((k - 1) * batch_size + batch_size, Len(toks)))]

\* Variant: the guard tests `tokens is None` and lets an empty list through.
NoTokensOnlyNone(toks) == Len(toks) < 0

\* `if not tokens`
NoTokens(toks) == Len(toks) = 0

\* One record of response['data']['fetched'].
Item(t) == [symbolToken |-> t, ltp |-> 100 + t]

\* The value stored under a token in the result map.
Quote(item) == [ltp |-> item.ltp]

\* The record lists an upstream answer may carry for a batch: the quotes of
\* none, of the first, of all but the last, or of all the requested tokens
\* (the rest is reported unfetched).
FetchedLists(batch) ==
    {[i \in 1..k |-> Item(batch[i])] :
        k \in {0, Min(1, Len(batch)), Len(batch) - 1, Len(batch)}}

\* What smart_api.getMarketData can do for a request:
\*   success   - envelope with status and data; every record is well formed
\*   malformed - envelope with status and data; after the records in
\*               `fetched` comes a record without 'symbolToken'
\*   ratelimit - envelope with errorcode AB1004
\*   error     - envelope (a dict) with any other errorcode, or an empty dict
\*   none      - no response object (None)
\*   raise     - the call itself throws
Responses(batch) ==
    {[kind |-> "success", fetched |-> f] : f \in FetchedLists(batch)}
        \cup {[kind |-> "malformed", fetched |-> f] :
                f \in {g \in FetchedLists(batch) : Len(g) < Len(batch)}}
        \cup {[kind |-> k, fetched |-> << >>] :
                k \in {"ratelimit", "error", "none", "raise"}}

NoResponse == [kind |-> "idle", fetched |-> << >>]

\* Variant: a success envelope that carries no record is not taken for a
\* success.
IsSuccessNonEmpty(resp) ==
    resp.kind \in {"success", "malformed"} /\ Len(resp.fetched) > 0

\* response and response.get('status') and response.get('data')
IsSuccess(resp) == resp.kind \in {"success", "malformed"}

\* Variant: any errorcode is taken for the rate-limit code.
IsRateLimitAnyCode(resp) == resp.kind \in {"ratelimit", "error"}

\* response and response.get('errorcode') == 'AB1004'
IsRateLimit(resp) == resp.kind = "ratelimit"

\* Variant: a missing response object is handled like an error envelope.
ThrowsNotNone(resp) == resp.kind \in {"raise", "malformed"}

\* The attempt ends in the `except Exception` clause: the call threw, the
\* merge loop hit a record without 'symbolToken' (KeyError), or the
\* other-error branch called .get on None (AttributeError).
Throws(resp) == resp.kind \in {"raise", "malformed", "none"}

\* Variant: the clause catches only what the upstream call throws.
CaughtUpstreamOnly(resp) == resp.kind = "raise"

\* `except Exception as e` catches every one of these.
Caught(resp) == TRUE

\* Variant: off by one, the last attempt still sleeps.
RetriesRemainOffByOne(a) == a <= max_retries

\* attempt < max_retries
RetriesRemain(a) == a < max_retries

\* Variant: linear instead of exponential backoff.
WaitTimeLinear(a) == base_delay * (a + 1)

\* base_delay * (2 ** attempt)
WaitTime(a) == base_delay * Pow2(a)

\* Variant: the map is rebuilt from each response instead of updated.
MergeReplace(res, fetched) ==
    [t \in {fetched[i].symbolToken : i \in 1..Len(fetched)} |->
        Quote(Item(t))]

\* Variant: a response without records clears the map.
MergeClear(res, fetched) ==
    LET new == {fetched[i].symbolToken : i \in 1..Len(fetched)}
    IN  IF Len(fetched) = 0 THEN << >>
        ELSE [t \in (DOMAIN res) \cup new |->
                 IF t \in new THEN Quote(Item(t)) ELSE res[t]]

\* for item in fetched: result[item['symbolToken']] = {...}
Merge(res, fetched) ==
    LET new == {fetched[i].symbolToken : i \in 1..Len(fetched)}
        last(t) == CHOOSE i \in 1..Len(fetched) :
                      /\ fetched[i].symbolToken = t
                      /\ \A j \in (i + 1)..Len(fetched) : fetched[j].symbolToken # t
    IN  [t \in (DOMAIN res) \cup new |->
            IF t \in new THEN Quote(fetched[last(t)]) ELSE res[t]]

\* Variant: off by one, no pacing before the last batch.
PaceNeededOffByOne(b, total) == b < total - 1

\* if batch_num < total_batches
PaceNeeded(b, total) == b < total

\* Variants: range(max_retries) and range(max_retries + 2).
InRangeShort(a) == a < max_retries
InRangeLong(a) == a <= max_retries + 1

\* for attempt in range(max_retries + 1)
InRange(a) == a <= max_retries

\* ------------------------------------------------------------------- state
VARIABLES
    tokens,      \* the argument
    pc,          \* control location of the call
    batches,     \* the batch plan
    batch_num,   \* 1-based index of the current batch
    attempt,     \* 0-based attempt of the current batch
    response,    \* the answer being processed
    wait_time,   \* duration of the running backoff sleep
    result,      \* the accumulating map token -> quote
    retval,      \* the map handed back to the caller
    \* observers (not read by the program)
    inFlight,    \* batches with an upstream request outstanding
    status,      \* per batch: PENDING / DONE / ABANDONED
    requests,    \* per batch: upstream requests issued
    waited,      \* per batch: cumulative backoff slept
    paces,       \* per batch: pacing sleeps slept after the batch ended
    delivered,   \* per batch: tokens of the records the upstream sent for it
    kinds        \* per batch: kinds of answers it received

vars == <<tokens, pc, batches, batch_num, attempt, response, wait_time, result,
          retval, inFlight, status, requests, waited, paces, delivered, kinds>>

obs == <<inFlight, status, requests, waited, paces, delivered, kinds>>

\* The fetcher is not running.
FetchIdle ==
    /\ tokens = << >>
    /\ pc = "idle"
    /\ batches = << >>
    /\ batch_num = 0
    /\ attempt = 0
    /\ response = NoResponse
    /\ wait_time = 0
    /\ result = << >>
    /\ retval = << >>
    /\ inFlight = {}
    /\ status = << >>
    /\ requests = << >>
    /\ waited = << >>
    /\ paces = << >>
    /\ delivered = << >>
    /\ kinds = << >>

\* ------------------------------------------------ strike window selector
\* InstrumentService.get_option_symbols, lines 159-183 of
\* backend/services/instrument_service.py.

Max(a, b) == IF a > b THEN a ELSE b

\* Strikes listed for the expiry, and the targets tried against them: below,
\* on, between and above the strikes; 0 is the falsy target, for which the
\* selector does not filter.
StrikeUniverse == {100, 150, 200, 250, 300, 350, 400}
AtmTargets == {0, 50, 100, 225, 250, 400, 450}

\* The strike column of the options frame as the database hands it over:
\* one entry per call and per put, here in descending order.
RECURSIVE Column(_)
Column(S) ==
    IF S = {} THEN << >>
    ELSE LET m == CHOOSE x \in S : \A y \in S : y <= x
         IN  <<m, m>> \o Column(S \ {m})

\* sorted(options['strike'].unique())
RECURSIVE SortedSet(_)
SortedSet(S) ==
    IF S = {} THEN << >>
    ELSE LET m == CHOOSE x \in S : \A y \in S : x <= y
         IN  <<m>> \o SortedSet(S \ {m})

SortedUnique(col) == SortedSet(Range(col))

\* bisect.bisect_right: the insertion point after equal entries.
RECURSIVE BisectRight(_, _, _, _)
BisectRight(a, x, lo, hi) ==
    IF lo < hi
      THEN LET mid == (lo + hi) \div 2
           IN  IF x < a[mid + 1] THEN BisectRight(a, x, lo, mid)
                                 ELSE BisectRight(a, x, mid + 1, hi)
      ELSE lo

\* bisect.bisect_left(a, x, lo, hi) of the standard library, 0-based.
RECURSIVE Bisect(_, _, _, _)
Bisect(a, x, lo, hi) ==
    IF lo < hi
      THEN LET mid == (lo + hi) \div 2
           IN  IF a[mid + 1] < x THEN Bisect(a, x, mid + 1, hi)
                                 ELSE Bisect(a, x, lo, mid)
      ELSE lo

\* Variant: the insertion point is taken with bisect_right.
BisectRightOf(a, x) == BisectRight(a, x, 0, Len(a))

\* idx = bisect.bisect_left(unique_strikes, atm_strike)
BisectLeft(a, x) == Bisect(a, x, 0, Len(a))

\* start_idx = max(0, idx - strike_range)
StartIdx(i, n) == Max(0, i - n)

\* Variant: the end index leaves out the + 1 of the half-open slice.
EndIdxNoPlusOne(len, i, n) == Min(len, i + n)

\* end_idx = min(len(unique_strikes), idx + strike_range + 1)
EndIdx(len, i, n) == Min(len, i + n + 1)

\* a[start:end] of a Python list (0-based, end excluded).
Slice(a, start, end) == SubSeq(a, start + 1, end)

\* `if atm_strike:`
HasTarget(atm) == atm # 0

VARIABLES
    opt_strikes,     \* strike column of the options frame
    atm_strike,      \* the argument
    strike_range,    \* the argument
    unique_strikes,  \* sorted unique strikes
    idx,             \* insertion point of atm_strike
    target_strikes,  \* the strike window
    sel_strikes,     \* strikes of the rows handed back
    sel_pc           \* control location of the selector

selVars == <<opt_strikes, atm_strike, strike_range, unique_strikes, idx,
             target_strikes, sel_strikes, sel_pc>>

\* The selector is not running.
SelIdle ==
    /\ opt_strikes = << >>
    /\ atm_strike = 0
    /\ strike_range = 0
    /\ unique_strikes = << >>
    /\ idx = 0
    /\ target_strikes = << >>
    /\ sel_strikes = {}
    /\ sel_pc = "idle"

\* ---------------------------------------- Black-Scholes pricer and IV solver
\* backend/services/greeks.py.  Money (S, K, prices) and T are small signed
\* integers; a volatility is held in thousandths (sigma 0.25 is 250); the
\* discount factor exp(-r*T) is held in percent.  The value of the
\* Black-Scholes formula is not computed: what the solver uses of it is its
\* order relative to the market price, and the model price is increasing in
\* sigma, so the input g_star is the volatility at which the model price
\* meets the market price and g_band the half-width of the interval of
\* volatilities whose model price is within `tolerance` of it.

\* `max_iterations=100` of compute_iv and of _bisection_iv
max_iterations == 100

\* the clamp of the seed, `max(min(sigma, 5.0), 0.01)`
SeedFloor == 10

\* `sigma <= 0.001` / `low=0.001`
SigmaFloor == 1

\* `sigma > 5.0` / `high=5.0`
SigmaCap == 5000

\* An optional argument: None or a number.
None == [some |-> FALSE, v |-> 0]
Some(x) == [some |-> TRUE, v |-> x]

Money == {-1, 0, 2}
StrikeVals == {-1, 0, 1, 4}
Times == {-1, 0, 1}
PriceArgs == {-1, 0, 1, 2}
SigmaArgs == {-250, 0, 250}
Discounts == {50, 100}
OptionTypes == {"CE", "PE"}

\* Floating-point regime of the inputs: "finite" (every library call
\* succeeds), "log_domain" (S / K evaluates to 0.0, so math.log raises
\* ValueError) and "exp_range" (-r * T is above 709, so math.exp raises
\* OverflowError).
Numerics == {"finite", "log_domain", "exp_range"}

\* Oracle values of the transcendental parts.
Stars == {0, 300, 9000}
Bands == {0, 20}
SeedRaws == {2, 400, 9000}
NewtonRaws == {-500, 1, 300, 9000}
FormulaValues == {0, 3}

Abs(x) == IF x < 0 THEN -x ELSE x

\* Variant: the guard of bs_price leaves out the sigma test.
BsDegenerateNoSigma(S, K, T, sigma) == T <= 0 \/ S <= 0 \/ K <= 0

\* `if T <= 0 or sigma <= 0 or S <= 0 or K <= 0: return 0.0`
BsDegenerate(S, K, T, sigma) == T <= 0 \/ sigma <= 0 \/ S <= 0 \/ K <= 0

\* _d1: math.log(S / K) raises ValueError
D1Raises(num) == num = "log_domain"

\* math.exp(-r * T) raises OverflowError
ExpRaises(num) == num = "exp_range"

\* Variant: the guard of compute_iv lets a zero price through.
IvDegenerateStrict(price, S, K, T) == price < 0 \/ S <= 0 \/ K <= 0 \/ T <= 0

\* `if option_price <= 0 or S <= 0 or K <= 0 or T <= 0: return 0.0`
IvDegenerate(price, S, K, T) == price <= 0 \/ S <= 0 \/ K <= 0 \/ T <= 0

\* intrinsic = max(S - K*exp(-r*T), 0) or max(K*exp(-r*T) - S, 0), in
\* hundredths of a money unit.
Intrinsic(S, K, disc, type) ==
    IF type = "CE" THEN Max(100 * S - K * disc, 0)
                   ELSE Max(K * disc - 100 * S, 0)

\* `if option_price < intrinsic: return 0.0`
BelowFloor(price, S, K, disc, type) ==
    100 * price < Intrinsic(S, K, disc, type)

\* The float nan.  Every comparison with it is False.
NaN == -999999

\* sigma = max(min(sigma, 5.0), 0.01).  min and max keep their first argument
\* unless the second compares below / above it, so nan passes through both.
ClampSeed(raw) ==
    IF raw = NaN THEN NaN ELSE Max(Min(raw, SigmaCap), SeedFloor)

\* `if sigma <= 0.001: sigma = 0.001 elif sigma > 5.0: sigma = 5.0`
\* Neither comparison is True of nan.
ClampStep(raw) ==
    IF raw = NaN THEN NaN
    ELSE IF raw <= SigmaFloor THEN SigmaFloor
    ELSE IF raw > SigmaCap THEN SigmaCap ELSE raw

\* `abs(diff) < tolerance` / `abs(price - option_price) < tolerance`
Within(sigma, star, band) == sigma # NaN /\ Abs(sigma - star) <= band

\* `price > option_price`
PriceBelow(sigma, star) == sigma < star
PriceAbove(sigma, star) == sigma > star

\* mid = (low + high) / 2.0
Mid(low, high) == (low + high) \div 2

\* result = {"iv": 0, "delta": 0, "gamma": 0, "theta": 0, "vega": 0}
ZeroGreeks == [iv |-> 0, delta |-> 0, gamma |-> 0, theta |-> 0, vega |-> 0]

\* The dictionary assigned at lines 213-219.  iv is round(sigma * 100, 2)
\* in hundredths of a percent; the value of a partial derivative is not
\* computed, its field holds the volatility it was computed from.
Partials(sigma) ==
    [iv |-> 10 * sigma, delta |-> sigma, gamma |-> sigma, theta |-> sigma,
     vega |-> sigma]

\* --- the values of delta, gamma and vega (lines 189-209)
\* _norm_cdf (lines 23-25) is 0.5 * (1.0 + math.erf(..)) and math.erf lies in
\* [-1, 1]: its value, in ten-thousandths as round(delta, 4) keeps it.
CdfUnit == 10000
CdfValues == {0, 5000, CdfUnit}

\* _norm_pdf (lines 28-30) is math.exp(..) / math.sqrt(2 pi): from 0 (the
\* exponential underflows) to 0.3989, in ten-thousandths.
PdfValues == {0, 3989}

\* sqrt_T = math.sqrt(T)
Sqrt(T) == CHOOSE r \in 0..T : r * r <= T /\ (r + 1) * (r + 1) > T

\* Lines 193-197.
DeltaCallOnly(type, cdf) == cdf
Delta(type, cdf) == IF type = "CE" THEN cdf ELSE cdf - CdfUnit

\* Line 200: gamma = _norm_pdf(d1) / (S * sigma * sqrt_T)
Gamma(pdf, S, sigma, T) == pdf \div (S * sigma * Sqrt(T))

\* Line 211: vega = S * _norm_pdf(d1) * sqrt_T / 100.0
Vega(pdf, S, T) == (S * pdf * Sqrt(T)) \div 100

\* The delta, gamma and vega of the dictionary of line 174.
ZeroValues == [delta |-> 0, gamma |-> 0, vega |-> 0]

\* `if option_price is None or option_price <= 0: return result`
NoPrice(price) == ~price.some \/ price.v <= 0

VARIABLES
    g_entry,      \* the function called: bs_price, compute_iv, compute_greeks
    g_S, g_K, g_T,
    g_type,       \* option_type
    g_disc,       \* exp(-r*T) in percent
    g_num,        \* floating-point regime of the inputs
    g_sigma_arg,  \* the argument sigma (None or a number)
    g_price_arg,  \* the argument option_price (None or a number)
    g_star,       \* volatility at which the model price meets the market price
    g_band,       \* half-width of the tolerance interval around g_star
    g_pc,         \* control location
    g_sigma,      \* the local sigma
    g_i,          \* loop index of the running loop
    g_low, g_high,
    g_bs,         \* value returned by bs_price
    g_iv,         \* value returned by compute_iv
    g_result,     \* the dictionary of compute_greeks
    g_vals,       \* the values of delta, gamma and vega in that dictionary
    g_loops,      \* observer: the loops the solver has entered, in order
    g_exc         \* observer: exceptions raised so far, in order

gkVars == <<g_entry, g_S, g_K, g_T, g_type, g_disc, g_num, g_sigma_arg,
            g_price_arg, g_star, g_band, g_pc, g_sigma, g_i, g_low, g_high,
            g_bs, g_iv, g_result, g_vals, g_loops, g_exc>>

\* No function of greeks.py is running.
GreeksIdle ==
    /\ g_entry = "none"
    /\ g_S = 0 /\ g_K = 0 /\ g_T = 0
    /\ g_type = "CE"
    /\ g_disc = 100
    /\ g_num = "finite"
    /\ g_sigma_arg = None
    /\ g_price_arg = None
    /\ g_star = 0 /\ g_band = 0
    /\ g_pc = "idle"
    /\ g_sigma = 0
    /\ g_i = 0
    /\ g_low = 0 /\ g_high = 0
    /\ g_bs = 0
    /\ g_iv = 0
    /\ g_result = ZeroGreeks
    /\ g_loops = << >>
    /\ g_vals = ZeroValues
    /\ g_exc = << >>

\* ------------------------------------------------------- chain assembler
\* get_option_chain (backend/api/endpoints.py) and
\* TradeAdvisor._get_option_chain (backend/services/trade_advisor.py) build
\* the chain with the same loop.  A row carries its strike and one record
\* per side; of the market fields only the price is kept, open interest and
\* volume are read from the fetched map the same way.

\* Most option rows handed to one call of the assembler.
MaxRows == 3

\* Strikes of the instruments table, in paise.
ChainStrikes == {10000, 10050, 12350}

\* Last traded prices the fetched map may carry.
Ltps == {0, 5}

\* Volatilities compute_iv may resolve for a row.
ChainSigmas == {SigmaFloor, SigmaCap}

\* The token of the instrument with a strike and a side.
TokenOf(strike, side) == 2 * strike + (IF side = "CE" THEN 0 ELSE 1)

\* A record of the instruments table: token, strike and the suffix of the
\* trading symbol.
Instrument(strike, side) ==
    [token |-> TokenOf(strike, side), strike |-> strike, symbol |-> side]

Instruments == {Instrument(k, s) : k \in ChainStrikes, s \in OptionTypes}

\* The lists get_option_symbols may hand back: distinct instruments in any
\* order (the query has no ORDER BY).
OptionLists ==
    {ops \in UNION {[1..n -> Instruments] : n \in 0..MaxRows} :
        \A i, j \in 1..Len(ops) : i # j => ops[i] # ops[j]}

\* The maps get_market_data_batch may hand back for a token list: quotes for
\* any part of the tokens.
MarketMaps(ops) ==
    UNION {[D -> [ltp : Ltps]] : D \in SUBSET {ops[i].token : i \in 1..Len(ops)}}

\* opt_type = "CE" if op['symbol'].endswith("CE") else "PE"
OptType(op) == IF op.symbol = "CE" THEN "CE" ELSE "PE"

\* op['strike'] / 100.0: rupees and hundredths of a rupee.
Rupees(paise) == <<paise \div 100, paise % 100>>

\* Order of two strikes in rupees.
RupeesLess(a, b) == a[1] < b[1] \/ (a[1] = b[1] /\ a[2] < b[2])

\* Variant: the rows are keyed by the option token.
RowKeyByToken(op) == <<op.token, 0>>

\* The key of grouped: strike_rupees
RowKey(op) == Rupees(op.strike)

\* Variant: an option without a quote keeps a non-zero price.
LtpStaleDefault(market, tok) ==
    IF tok \in DOMAIN market THEN market[tok].ltp ELSE 5

\* md = market_data.get(token_str, {}); ltp = md.get('ltp', 0)
Ltp(market, tok) ==
    IF tok \in DOMAIN market THEN market[tok].ltp ELSE 0

\* compute_greeks(S, K, T, option_type, option_price) reaches compute_iv.
ReachesSolver(S, K, T, price) ==
    /\ ~(S <= 0 \/ K <= 0 \/ T <= 0)
    /\ ~NoPrice(Some(price))

\* The dictionaries compute_greeks may return for a row.
GreeksResults(S, K, T, price) ==
    IF ReachesSolver(S, K, T, price)
      THEN {ZeroGreeks} \cup {Partials(s) : s \in ChainSigmas}
      ELSE {ZeroGreeks}

\* A side of a row that no option has filled.
NoSide == [set |-> FALSE, price |-> 0, token |-> 0, greeks |-> ZeroGreeks]

\* The fields written for one option.
Side(ltp, tok, greeks) ==
    [set |-> TRUE, price |-> ltp, token |-> tok, greeks |-> greeks]

\* grouped[strike_rupees] = {"strike": strike_rupees}
NewRow(strike) == [strike |-> strike, ce |-> NoSide, pe |-> NoSide]

\* The row after the fields of one side are written.
WithSide(row, type, side) ==
    IF type = "CE" THEN [row EXCEPT !.ce = side] ELSE [row EXCEPT !.pe = side]

\* grouped.values()
Values(f) == {f[k] : k \in DOMAIN f}

\* sorted(grouped.values(), key=lambda x: x['strike'])
RECURSIVE SortedByStrike(_)
SortedByStrike(rows) ==
    IF rows = {} THEN << >>
    ELSE LET r == CHOOSE x \in rows : \A y \in rows : ~RupeesLess(y.strike, x.strike)
         IN  <<r>> \o SortedByStrike(rows \ {r})

VARIABLES
    c_spot,     \* spot_price
    c_options,  \* options
    c_market,   \* market_data
    c_T,        \* T
    c_k,        \* position of the loop in options
    c_grouped,  \* grouped
    c_chain,    \* final_chain / chain
    c_pc        \* control location of the assembler

chVars == <<c_spot, c_options, c_market, c_T, c_k, c_grouped, c_chain, c_pc>>

\* The assembler is not running.
ChainIdle ==
    /\ c_spot = 0
    /\ c_options = << >>
    /\ c_market = << >>
    /\ c_T = 0
    /\ c_k = 0
    /\ c_grouped = << >>
    /\ c_chain = << >>
    /\ c_pc = "idle"

\* ------------------------------------- concurrent calls of compute_greeks
\* Three calls of compute_greeks (lines 149-223) whose steps interleave: two
\* with the same arguments and one with arguments of its own.  Each call has
\* its locals; the dictionaries they build live on one heap.

Calls == {"first", "second", "other"}

\* The arguments of one call.  r is bound to the default 0.0525 when the
\* function is defined (line 149); no call reads RISK_FREE_RATE.
CallArgs ==
    [S : {0, 2}, K : {1}, T : {1}, sigma : {None, Some(250)},
     option_price : {None, Some(2)}, option_type : OptionTypes,
     num : Numerics]

\* The arguments of the third call.
OtherArgs ==
    {a \in CallArgs : a.option_type = "CE" /\ a.num = "finite"}

\* What compute_iv does for given arguments: it raises or returns a value.
\* It works on its arguments and locals only (lines 67-146), and math.log,
\* math.exp, math.erf and math.sqrt are functions: one outcome per argument
\* tuple.
IvOutcomes(a) ==
    IF D1Raises(a.num) \/ ExpRaises(a.num)
    THEN {[raised |-> TRUE, v |-> 0]}
    ELSE {[raised |-> FALSE, v |-> 0], [raised |-> FALSE, v |-> 300]}

\* `result = {...}` evaluates a dictionary display: a new object.
FreshShared(heap) == 1
Fresh(heap) == Len(heap) + 1

\* The heap after object o is given the value d.
Store(heap, o, d) ==
    IF o > Len(heap) THEN Append(heap, d) ELSE [heap EXCEPT ![o] = d]

\* What a call hands to its caller.
NoOutcome == [raised |-> FALSE, value |-> ZeroGreeks]
Returned(d) == [raised |-> FALSE, value |-> d]
Raised == [raised |-> TRUE, value |-> ZeroGreeks]

VARIABLES
    q_args,     \* per call: its arguments
    q_math,     \* per argument tuple: the outcome of compute_iv
    q_pc,       \* per call: control location
    q_result,   \* per call: the local `result`, a reference into the heap
    q_sigma,    \* per call: the local `sigma`
    q_heap,     \* the dictionaries created so far
    q_out       \* per call: what the caller received

cpVars == <<q_args, q_math, q_pc, q_result, q_sigma, q_heap, q_out>>

\* No concurrent calls are running.
CallsIdle ==
    /\ q_args = << >>
    /\ q_math = << >>
    /\ q_pc = << >>
    /\ q_result = << >>
    /\ q_sigma = << >>
    /\ q_heap = << >>
    /\ q_out = << >>

\* ------------------------------------------------------ caller's deadline
\* The timeout a caller may wrap around one call of get_market_data_batch.
\* The function takes no deadline argument and polls no clock (lines 84-178):
\* the deadline is an event of the caller's side that no statement of the
\* fetcher reads.

\* Longest token list of the calls run against a deadline.
DeadlineTokens == 6

VARIABLES
    deadline    \* "pending" until the caller's deadline fires, then "fired"

dlVars == <<deadline>>

\* No deadline has fired.
DeadlineIdle == deadline = "pending"

\* The variables of the other processes, as seen from each process.
others == <<selVars, gkVars, chVars, dlVars, cpVars>>
OthersIdle == SelIdle /\ GreeksIdle /\ ChainIdle /\ DeadlineIdle /\ CallsIdle

selOthers == <<vars, gkVars, chVars, dlVars, cpVars>>
SelOthersIdle == FetchIdle /\ GreeksIdle /\ ChainIdle /\ DeadlineIdle /\ CallsIdle

gkOthers == <<vars, selVars, chVars, dlVars, cpVars>>
GkOthersIdle == FetchIdle /\ SelIdle /\ ChainIdle /\ DeadlineIdle /\ CallsIdle

chOthers == <<vars, selVars, gkVars, dlVars, cpVars>>
ChOthersIdle == FetchIdle /\ SelIdle /\ GreeksIdle /\ DeadlineIdle /\ CallsIdle

cpOthers == <<vars, selVars, gkVars, chVars, dlVars>>
CpOthersIdle ==
    FetchIdle /\ SelIdle /\ GreeksIdle /\ ChainIdle /\ DeadlineIdle

Init ==
    /\ tokens \in TokenLists
    /\ pc = "start"
    /\ batches = << >>
    /\ batch_num = 0
    /\ attempt = 0
    /\ response = NoResponse
    /\ wait_time = 0
    /\ result = << >>
    /\ retval = << >>
    /\ inFlight = {}
    /\ status = << >>
    /\ requests = << >>
    /\ waited = << >>
    /\ paces = << >>
    /\ delivered = << >>
    /\ kinds = << >>
    /\ OthersIdle

\* ----------------------------------------------------------------- actions
\* Lines 100-112: the empty-list return, the batch plan, entry of the loop.
Start ==
    /\ pc = "start"
    /\ IF NoTokens(tokens)
         THEN /\ pc' = "returned"
              /\ retval' = << >>
              /\ UNCHANGED <<batches, batch_num, obs>>
         ELSE LET plan == Batches(tokens)
                  all == 1..Len(plan)
              IN  /\ batches' = plan
                  /\ batch_num' = IF Len(plan) = 0 THEN 0 ELSE 1
                  /\ pc' = IF Len(plan) = 0 THEN "complete" ELSE "request"
                  /\ status' = [b \in all |-> "PENDING"]
                  /\ requests' = [b \in all |-> 0]
                  /\ waited' = [b \in all |-> 0]
                  /\ paces' = [b \in all |-> 0]
                  /\ delivered' = [b \in all |-> {}]
                  /\ kinds' = [b \in all |-> {}]
                  /\ UNCHANGED <<retval, inFlight>>
    /\ UNCHANGED <<tokens, attempt, response, wait_time, result>>

\* Line 123: the upstream call is issued and the caller blocks on it.
Request ==
    /\ pc = "request"
    /\ pc' = "await"
    /\ inFlight' = inFlight \cup {batch_num}
    /\ requests' = [requests EXCEPT ![batch_num] = @ + 1]
    /\ UNCHANGED <<tokens, batches, batch_num, attempt, response, wait_time,
                   result, retval, status, waited, paces, delivered, kinds>>

\* Line 123: the upstream answers (or the call throws).
Receive ==
    /\ pc = "await"
    /\ \E r \in Responses(batches[batch_num]) :
          /\ response' = r
          /\ kinds' = [kinds EXCEPT ![batch_num] = @ \cup {r.kind}]
          /\ delivered' = [delivered EXCEPT ![batch_num] =
                             @ \cup {r.fetched[i].symbolToken :
                                       i \in 1..Len(r.fetched)}]
    /\ pc' = "handle"
    /\ inFlight' = inFlight \ {batch_num}
    /\ UNCHANGED <<tokens, batches, batch_num, attempt, wait_time, result,
                   retval, status, requests, waited, paces>>

\* `break`: leave the attempt loop.
Break ==
    /\ pc' = "endbatch"
    /\ UNCHANGED <<attempt, wait_time>>

\* The body of the attempt loop ran to its end: next value of `attempt`,
\* or the loop is exhausted.
Continue ==
    /\ attempt' = attempt + 1
    /\ pc' = IF InRange(attempt + 1) THEN "request" ELSE "endbatch"
    /\ wait_time' = 0

\* time.sleep(wait_time) with wait_time = base_delay * (2 ** attempt)
Sleep ==
    /\ pc' = "backoff"
    /\ wait_time' = WaitTime(attempt)
    /\ UNCHANGED attempt

\* Variant: the success branch lacks its `break`.
SuccessFallsThrough == Continue

\* Line 149: `break  # Success, move to next batch`
SuccessExit == Break

\* Lines 157-158: retries exhausted on AB1004; only a log line, no break.
RateLimitExhaustedExit == Continue

\* Line 162: `break` of the other-error branch.
OtherErrorExit == Break

\* Line 171: `break` of the except clause.
ExceptExhaustedExit == Break

\* Lines 164-171: the except clause.
ExceptClause ==
    IF ~Caught(response)
      THEN /\ pc' = "raised"
           /\ UNCHANGED <<attempt, wait_time, status>>
      ELSE IF RetriesRemain(attempt)
        THEN /\ Sleep
             /\ UNCHANGED status
        ELSE /\ ExceptExhaustedExit
             /\ status' = [status EXCEPT ![batch_num] = "ABANDONED"]

\* Lines 125-149: a success envelope; records are merged one by one, a
\* record without 'symbolToken' throws out of the merge loop.
HandleSuccess ==
    /\ pc = "handle"
    /\ IsSuccess(response)
    /\ result' = Merge(result, response.fetched)
    /\ IF Throws(response)
         THEN ExceptClause
         ELSE /\ status' = [status EXCEPT ![batch_num] = "DONE"]
              /\ SuccessExit
    /\ UNCHANGED <<tokens, batches, batch_num, response, retval,
                   inFlight, requests, waited, paces, delivered, kinds>>

\* Lines 151-158: the rate-limit code.
HandleRateLimit ==
    /\ pc = "handle"
    /\ ~IsSuccess(response)
    /\ IsRateLimit(response)
    /\ IF RetriesRemain(attempt)
         THEN /\ Sleep
              /\ UNCHANGED status
         ELSE /\ status' = [status EXCEPT ![batch_num] = "ABANDONED"]
              /\ RateLimitExhaustedExit
    /\ UNCHANGED <<tokens, batches, batch_num, response, result, retval,
                   inFlight, requests, waited, paces, delivered, kinds>>

\* Lines 159-162: an error envelope with another code.
HandleOtherError ==
    /\ pc = "handle"
    /\ ~IsSuccess(response)
    /\ ~IsRateLimit(response)
    /\ ~Throws(response)
    /\ status' = [status EXCEPT ![batch_num] = "ABANDONED"]
    /\ OtherErrorExit
    /\ UNCHANGED <<tokens, batches, batch_num, response, result, retval,
                   inFlight, requests, waited, paces, delivered, kinds>>

\* Lines 123 and 161 into 164-171: the call threw, or the response is None
\* and the other-error branch fails on response.get.
HandleException ==
    /\ pc = "handle"
    /\ ~IsSuccess(response)
    /\ ~IsRateLimit(response)
    /\ Throws(response)
    /\ ExceptClause
    /\ UNCHANGED <<tokens, batches, batch_num, response, result, retval,
                   inFlight, requests, waited, paces, delivered, kinds>>

\* Lines 156 and 168: time.sleep(wait_time) returns; the loop body is over.
Wake ==
    /\ pc = "backoff"
    /\ waited' = [waited EXCEPT ![batch_num] = @ + wait_time]
    /\ Continue
    /\ UNCHANGED <<tokens, batches, batch_num, response, result, retval,
                   inFlight, status, requests, paces, delivered, kinds>>

\* Line 112: the batch loop moves on.
NextBatch ==
    IF batch_num < Len(batches)
      THEN /\ batch_num' = batch_num + 1
           /\ attempt' = 0
           /\ pc' = "request"
      ELSE /\ pc' = "complete"
           /\ UNCHANGED <<batch_num, attempt>>

\* Lines 173-175: the attempt loop is over.
EndBatch ==
    /\ pc = "endbatch"
    /\ IF PaceNeeded(batch_num, Len(batches))
         THEN /\ pc' = "pace"
              /\ UNCHANGED <<batch_num, attempt>>
         ELSE NextBatch
    /\ UNCHANGED <<tokens, batches, response, wait_time, result, retval, obs>>

\* Line 175: time.sleep(0.3) returns.
PaceWake ==
    /\ pc = "pace"
    /\ paces' = [paces EXCEPT ![batch_num] = @ + 1]
    /\ NextBatch
    /\ UNCHANGED <<tokens, batches, response, wait_time, result, retval,
                   inFlight, status, requests, waited, delivered, kinds>>

\* Lines 177-178: the closing log line and `return result`.
Complete ==
    /\ pc = "complete"
    /\ retval' = result
    /\ pc' = "returned"
    /\ UNCHANGED <<tokens, batches, batch_num, attempt, response, wait_time,
                   result, obs>>

Next ==
    \/ Start /\ UNCHANGED others
    \/ Request /\ UNCHANGED others
    \/ Receive /\ UNCHANGED others
    \/ HandleSuccess /\ UNCHANGED others
    \/ HandleRateLimit /\ UNCHANGED others
    \/ HandleOtherError /\ UNCHANGED others
    \/ HandleException /\ UNCHANGED others
    \/ Wake /\ UNCHANGED others
    \/ EndBatch /\ UNCHANGED others
    \/ PaceWake /\ UNCHANGED others
    \/ Complete /\ UNCHANGED others

Spec == Init /\ [][Next]_vars

\* The interpreter keeps running the call: every step that can be taken is
\* taken (each upstream call returns or throws, each sleep ends).
FairSpec == Spec /\ WF_vars(Next)

\* ------------------------------------------------------ caller's deadline
\* A call of the fetcher made under a deadline.
DeadlineInit ==
    /\ Init
    /\ Len(tokens) <= DeadlineTokens

\* The deadline fires while the fetcher sleeps: in time.sleep(wait_time) of
\* a backoff (lines 156, 168) or in time.sleep(0.3) between two batches
\* (line 175).  Nothing of the fetcher changes.
DeadlineFires ==
    /\ deadline = "pending"
    /\ pc \in {"backoff", "pace"}
    /\ deadline' = "fired"
    /\ UNCHANGED <<vars, selVars, gkVars, chVars, cpVars>>

DeadlineNext ==
    \/ Next
    \/ DeadlineFires

DeadlineSpec == DeadlineInit /\ [][DeadlineNext]_<<vars, dlVars>>

\* ------------------------------------- concurrent calls of compute_greeks
CallsInit ==
    /\ \E a \in CallArgs, b \in OtherArgs :
         /\ q_args = [c \in Calls |-> IF c = "other" THEN b ELSE a]
         /\ q_math \in {m \in [{a, b} -> UNION {IvOutcomes(a), IvOutcomes(b)}] :
                           \A x \in {a, b} : m[x] \in IvOutcomes(x)}
    /\ q_pc = [c \in Calls |-> "start"]
    /\ q_result = [c \in Calls |-> 0]
    /\ q_sigma = [c \in Calls |-> 0]
    /\ q_heap = << >>
    /\ q_out = [c \in Calls |-> NoOutcome]
    /\ CpOthersIdle

\* Line 174: result = {"iv": 0, "delta": 0, "gamma": 0, "theta": 0, "vega": 0}
CallEnter(c) ==
    /\ q_pc[c] = "start"
    /\ q_result' = [q_result EXCEPT ![c] = Fresh(q_heap)]
    /\ q_heap' = Store(q_heap, Fresh(q_heap), ZeroGreeks)
    /\ q_pc' = [q_pc EXCEPT ![c] = "guard"]
    /\ UNCHANGED <<q_args, q_math, q_sigma, q_out>>

\* Lines 176-181: the guards before the volatility is resolved.
CallGuard(c) ==
    /\ q_pc[c] = "guard"
    /\ LET a == q_args[c] IN
         q_pc' = [q_pc EXCEPT ![c] =
                    IF a.S <= 0 \/ a.K <= 0 \/ a.T <= 0 THEN "return"
                    ELSE IF a.sigma.some THEN "check"
                    ELSE IF NoPrice(a.option_price) THEN "return"
                    ELSE "solve"]
    /\ q_sigma' = [q_sigma EXCEPT ![c] = q_args[c].sigma.v]
    /\ UNCHANGED <<q_args, q_math, q_result, q_heap, q_out>>

\* Line 183: sigma = compute_iv(option_price, S, K, T, r, option_type); an
\* exception it raises leaves compute_greeks.
CallSolve(c) ==
    /\ q_pc[c] = "solve"
    /\ LET o == q_math[q_args[c]] IN
         IF o.raised
         THEN /\ q_pc' = [q_pc EXCEPT ![c] = "done"]
              /\ q_out' = [q_out EXCEPT ![c] = Raised]
              /\ UNCHANGED q_sigma
         ELSE /\ q_pc' = [q_pc EXCEPT ![c] = "check"]
              /\ q_sigma' = [q_sigma EXCEPT ![c] = o.v]
              /\ UNCHANGED q_out
    /\ UNCHANGED <<q_args, q_math, q_result, q_heap>>

\* Lines 185-221: `if sigma <= 0: return result`; the try block binds result
\* to a new dictionary unless a library call raises first.
CallPartials(c) ==
    /\ q_pc[c] = "check"
    /\ IF q_sigma[c] > 0 /\ ~D1Raises(q_args[c].num)
                         /\ ~ExpRaises(q_args[c].num)
       THEN /\ q_result' = [q_result EXCEPT ![c] = Fresh(q_heap)]
            /\ q_heap' = Store(q_heap, Fresh(q_heap), Partials(q_sigma[c]))
       ELSE UNCHANGED <<q_result, q_heap>>
    /\ q_pc' = [q_pc EXCEPT ![c] = "return"]
    /\ UNCHANGED <<q_args, q_math, q_sigma, q_out>>

\* Line 223 (and 177, 181, 186): return result
CallReturn(c) ==
    /\ q_pc[c] = "return"
    /\ q_out' = [q_out EXCEPT ![c] = Returned(q_heap[q_result[c]])]
    /\ q_pc' = [q_pc EXCEPT ![c] = "done"]
    /\ UNCHANGED <<q_args, q_math, q_result, q_sigma, q_heap>>

CallsNext ==
    \/ \E c \in Calls : CallEnter(c) /\ UNCHANGED cpOthers
    \/ \E c \in Calls : CallGuard(c) /\ UNCHANGED cpOthers
    \/ \E c \in Calls : CallSolve(c) /\ UNCHANGED cpOthers
    \/ \E c \in Calls : CallPartials(c) /\ UNCHANGED cpOthers
    \/ \E c \in Calls : CallReturn(c) /\ UNCHANGED cpOthers

CallsSpec == CallsInit /\ [][CallsNext]_cpVars

\* ---------------------------------------------- strike window selector
SelInit ==
    /\ \E S \in SUBSET StrikeUniverse : opt_strikes = Column(S)
    /\ atm_strike \in AtmTargets
    /\ strike_range \in 0..MaxRadius
    /\ unique_strikes = << >>
    /\ idx = 0
    /\ target_strikes = << >>
    /\ sel_strikes = {}
    /\ sel_pc = "start"
    /\ SelOthersIdle

\* Lines 161-162: `if options.empty: return []`
SelectNothing ==
    /\ sel_pc = "start"
    /\ Len(opt_strikes) = 0
    /\ sel_pc' = "done"
    /\ UNCHANGED <<opt_strikes, atm_strike, strike_range, unique_strikes, idx,
                   target_strikes, sel_strikes>>

\* Lines 165-183 without a target: every row is handed back.
SelectAll ==
    /\ sel_pc = "start"
    /\ Len(opt_strikes) > 0
    /\ ~HasTarget(atm_strike)
    /\ sel_strikes' = Range(opt_strikes)
    /\ sel_pc' = "done"
    /\ UNCHANGED <<opt_strikes, atm_strike, strike_range, unique_strikes, idx,
                   target_strikes>>

\* Lines 165-183 with a target: the window around the insertion point.
SelectWindow ==
    /\ sel_pc = "start"
    /\ Len(opt_strikes) > 0
    /\ HasTarget(atm_strike)
    /\ LET us == SortedUnique(opt_strikes)
           i == BisectLeft(us, atm_strike)
           win == Slice(us, StartIdx(i, strike_range),
                        EndIdx(Len(us), i, strike_range))
       IN  /\ unique_strikes' = us
           /\ idx' = i
           /\ target_strikes' = win
           /\ sel_strikes' = {k \in Range(opt_strikes) : k \in Range(win)}
    /\ sel_pc' = "done"
    /\ UNCHANGED <<opt_strikes, atm_strike, strike_range>>

SelNext ==
    \/ SelectNothing /\ UNCHANGED selOthers
    \/ SelectAll /\ UNCHANGED selOthers
    \/ SelectWindow /\ UNCHANGED selOthers

WindowSpec == SelInit /\ [][SelNext]_selVars

\* ---------------------------------------- Black-Scholes pricer and IV solver
gkInputs == <<g_entry, g_S, g_K, g_T, g_type, g_disc, g_num, g_sigma_arg,
              g_price_arg>>

\* One call of bs_price, compute_iv or compute_greeks with any arguments.
GkInit ==
    /\ g_entry \in {"bs_price", "compute_iv", "compute_greeks"}
    /\ g_S \in Money
    /\ g_K \in StrikeVals
    /\ g_T \in Times
    /\ g_type \in OptionTypes
    /\ g_disc \in Discounts
    /\ g_num \in Numerics
    /\ g_sigma_arg \in
         CASE g_entry = "bs_price" -> {Some(s) : s \in SigmaArgs}
           [] g_entry = "compute_iv" -> {None}
           [] OTHER -> {None} \cup {Some(s) : s \in SigmaArgs}
    /\ g_price_arg \in
         CASE g_entry = "bs_price" -> {None}
           [] g_entry = "compute_iv" -> {Some(p) : p \in PriceArgs}
           [] OTHER -> {None} \cup {Some(p) : p \in PriceArgs}
    /\ g_star = 0 /\ g_band = 0
    /\ g_pc = "start"
    /\ g_sigma = 0
    /\ g_i = 0
    /\ g_low = 0 /\ g_high = 0
    /\ g_bs = 0
    /\ g_iv = 0
    /\ g_result = ZeroGreeks
    /\ g_loops = << >>
    /\ g_vals = ZeroValues
    /\ g_exc = << >>
    /\ GkOthersIdle

\* --- bs_price, lines 43-64
BsReturnZero ==
    /\ g_entry = "bs_price" /\ g_pc = "start"
    /\ BsDegenerate(g_S, g_K, g_T, g_sigma_arg.v)
    /\ g_bs' = 0
    /\ g_pc' = "returned"
    /\ UNCHANGED <<gkInputs, g_vals, g_star, g_band, g_sigma, g_i, g_low, g_high,
                   g_iv, g_result, g_loops, g_exc>>

\* Line 58 or 62/64: math.log or math.exp raises.
BsRaise ==
    /\ g_entry = "bs_price" /\ g_pc = "start"
    /\ ~BsDegenerate(g_S, g_K, g_T, g_sigma_arg.v)
    /\ D1Raises(g_num) \/ ExpRaises(g_num)
    /\ g_exc' = Append(g_exc, IF D1Raises(g_num) THEN "ValueError"
                                                 ELSE "OverflowError")
    /\ g_pc' = "raised"
    /\ UNCHANGED <<gkInputs, g_vals, g_star, g_band, g_sigma, g_i, g_low, g_high,
                   g_bs, g_iv, g_result, g_loops>>

\* Lines 58-64: the value of the formula.
BsValue ==
    /\ g_entry = "bs_price" /\ g_pc = "start"
    /\ ~BsDegenerate(g_S, g_K, g_T, g_sigma_arg.v)
    /\ ~D1Raises(g_num) /\ ~ExpRaises(g_num)
    /\ g_bs' \in FormulaValues
    /\ g_pc' = "returned"
    /\ UNCHANGED <<gkInputs, g_vals, g_star, g_band, g_sigma, g_i, g_low, g_high,
                   g_iv, g_result, g_loops, g_exc>>

\* --- compute_iv, lines 67-128
AtIvEntry ==
    \/ g_entry = "compute_iv" /\ g_pc = "start"
    \/ g_pc = "iv_entry"

\* Where a return of compute_iv leads: to the caller of compute_iv, or back
\* into compute_greeks at line 185.
AfterIv == IF g_entry = "compute_iv" THEN "returned" ELSE "resolved"

\* Lines 85-86
IvGuard ==
    /\ AtIvEntry
    /\ IvDegenerate(g_price_arg.v, g_S, g_K, g_T)
    /\ g_iv' = 0
    /\ g_pc' = AfterIv
    /\ UNCHANGED <<gkInputs, g_vals, g_star, g_band, g_sigma, g_i, g_low, g_high,
                   g_bs, g_result, g_loops, g_exc>>

\* Lines 90/92: math.exp(-r * T) raises outside every try block.
IvFloorRaise ==
    /\ AtIvEntry
    /\ ~IvDegenerate(g_price_arg.v, g_S, g_K, g_T)
    /\ ExpRaises(g_num)
    /\ g_exc' = Append(g_exc, "OverflowError")
    /\ g_pc' = "raised"
    /\ UNCHANGED <<gkInputs, g_vals, g_star, g_band, g_sigma, g_i, g_low, g_high,
                   g_bs, g_iv, g_result, g_loops>>

\* Lines 94-95
IvFloor ==
    /\ AtIvEntry
    /\ ~IvDegenerate(g_price_arg.v, g_S, g_K, g_T)
    /\ ~ExpRaises(g_num)
    /\ BelowFloor(g_price_arg.v, g_S, g_K, g_disc, g_type)
    /\ g_iv' = 0
    /\ g_pc' = AfterIv
    /\ UNCHANGED <<gkInputs, g_vals, g_star, g_band, g_sigma, g_i, g_low, g_high,
                   g_bs, g_result, g_loops, g_exc>>

\* Lines 98-99: the clamped Brenner-Subrahmanyam seed.
IvSeed ==
    /\ AtIvEntry
    /\ ~IvDegenerate(g_price_arg.v, g_S, g_K, g_T)
    /\ ~ExpRaises(g_num)
    /\ ~BelowFloor(g_price_arg.v, g_S, g_K, g_disc, g_type)
    /\ \E raw \in SeedRaws \cup {NaN} : g_sigma' = ClampSeed(raw)
    /\ g_star' \in Stars
    /\ g_band' \in Bands
    /\ g_i' = 0
    /\ g_loops' = Append(g_loops, "newton")
    /\ g_pc' = "newton"
    /\ UNCHANGED <<gkInputs, g_vals, g_low, g_high, g_bs, g_iv, g_result, g_exc>>

\* Line 128: return _bisection_iv(...), with low=0.001 and high=5.0.
EnterBisection ==
    /\ g_low' = SigmaFloor
    /\ g_high' = SigmaCap
    /\ g_i' = 0
    /\ g_loops' = Append(g_loops, "bisect")
    /\ g_pc' = "bisect"

\* Line 101: the range of the Newton loop is used up.
NewtonExhausted ==
    /\ g_pc = "newton"
    /\ g_i = max_iterations
    /\ EnterBisection
    /\ UNCHANGED <<gkInputs, g_vals, g_star, g_band, g_sigma, g_bs, g_iv, g_result,
                   g_exc>>

\* Lines 103 and 124-125: bs_price raises, the except clause breaks.
NewtonRaises ==
    /\ g_pc = "newton"
    /\ g_i < max_iterations
    /\ D1Raises(g_num)
    /\ g_exc' = Append(g_exc, "ValueError")
    /\ EnterBisection
    /\ UNCHANGED <<gkInputs, g_vals, g_star, g_band, g_sigma, g_bs, g_iv, g_result>>

\* Lines 106-107
NewtonConverged ==
    /\ g_pc = "newton"
    /\ g_i < max_iterations
    /\ ~D1Raises(g_num)
    /\ Within(g_sigma, g_star, g_band)
    /\ g_iv' = g_sigma
    /\ g_pc' = AfterIv
    /\ UNCHANGED <<gkInputs, g_vals, g_star, g_band, g_sigma, g_i, g_low, g_high,
                   g_bs, g_result, g_exc,
                   g_loops>>

\* Lines 113-114: `if vega < 1e-10: break`; the vega of a nan sigma is nan.
NewtonFlat ==
    /\ g_pc = "newton"
    /\ g_i < max_iterations
    /\ ~D1Raises(g_num)
    /\ g_sigma # NaN
    /\ ~Within(g_sigma, g_star, g_band)
    /\ EnterBisection
    /\ UNCHANGED <<gkInputs, g_vals, g_star, g_band, g_sigma, g_bs, g_iv, g_result,
                   g_exc>>

\* Lines 116-122: the Newton update, clamped.  sigma - diff / vega of a nan
\* sigma is nan.
NewtonStep ==
    /\ g_pc = "newton"
    /\ g_i < max_iterations
    /\ ~D1Raises(g_num)
    /\ ~Within(g_sigma, g_star, g_band)
    /\ \E raw \in (IF g_sigma = NaN THEN {NaN} ELSE NewtonRaws \cup {g_star}) :
         g_sigma' = ClampStep(raw)
    /\ g_i' = g_i + 1
    /\ UNCHANGED <<gkInputs, g_vals, g_star, g_band, g_pc, g_low, g_high, g_bs, g_iv,
                   g_result, g_exc,
                   g_loops>>

\* --- _bisection_iv, lines 131-146
\* Line 136: bs_price raises; no handler is in scope.
BisectRaises ==
    /\ g_pc = "bisect"
    /\ g_i < max_iterations
    /\ D1Raises(g_num)
    /\ g_exc' = Append(g_exc, "ValueError")
    /\ g_pc' = "raised"
    /\ UNCHANGED <<gkInputs, g_vals, g_star, g_band, g_sigma, g_i, g_low, g_high,
                   g_bs, g_iv, g_result,
                   g_loops>>

\* Lines 138-139
BisectConverged ==
    /\ g_pc = "bisect"
    /\ g_i < max_iterations
    /\ ~D1Raises(g_num)
    /\ Within(Mid(g_low, g_high), g_star, g_band)
    /\ g_iv' = Mid(g_low, g_high)
    /\ g_pc' = AfterIv
    /\ UNCHANGED <<gkInputs, g_vals, g_star, g_band, g_sigma, g_i, g_low, g_high,
                   g_bs, g_result, g_exc,
                   g_loops>>

\* Lines 141-144
BisectHalve ==
    /\ g_pc = "bisect"
    /\ g_i < max_iterations
    /\ ~D1Raises(g_num)
    /\ ~Within(Mid(g_low, g_high), g_star, g_band)
    /\ IF PriceAbove(Mid(g_low, g_high), g_star)
         THEN g_high' = Mid(g_low, g_high) /\ g_low' = g_low
         ELSE g_low' = Mid(g_low, g_high) /\ g_high' = g_high
    /\ g_i' = g_i + 1
    /\ UNCHANGED <<gkInputs, g_vals, g_star, g_band, g_pc, g_sigma, g_bs, g_iv,
                   g_result, g_exc,
                   g_loops>>

\* Line 146: return (low + high) / 2.0
BisectExhausted ==
    /\ g_pc = "bisect"
    /\ g_i = max_iterations
    /\ g_iv' = Mid(g_low, g_high)
    /\ g_pc' = AfterIv
    /\ UNCHANGED <<gkInputs, g_vals, g_star, g_band, g_sigma, g_i, g_low, g_high,
                   g_bs, g_result, g_loops, g_exc>>

\* --- compute_greeks, lines 149-223
\* Lines 176-177
GreeksGuard ==
    /\ g_entry = "compute_greeks" /\ g_pc = "start"
    /\ g_S <= 0 \/ g_K <= 0 \/ g_T <= 0
    /\ g_pc' = "returned"
    /\ UNCHANGED <<gkInputs, g_vals, g_star, g_band, g_sigma, g_i, g_low, g_high,
                   g_bs, g_iv, g_result, g_loops, g_exc>>

\* Lines 180-182
GreeksNoPrice ==
    /\ g_entry = "compute_greeks" /\ g_pc = "start"
    /\ ~(g_S <= 0 \/ g_K <= 0 \/ g_T <= 0)
    /\ ~g_sigma_arg.some
    /\ NoPrice(g_price_arg)
    /\ g_pc' = "returned"
    /\ UNCHANGED <<gkInputs, g_vals, g_star, g_band, g_sigma, g_i, g_low, g_high,
                   g_bs, g_iv, g_result, g_loops, g_exc>>

\* Line 183: sigma = compute_iv(...), called outside the try block.
GreeksResolve ==
    /\ g_entry = "compute_greeks" /\ g_pc = "start"
    /\ ~(g_S <= 0 \/ g_K <= 0 \/ g_T <= 0)
    /\ ~g_sigma_arg.some
    /\ ~NoPrice(g_price_arg)
    /\ g_pc' = "iv_entry"
    /\ UNCHANGED <<gkInputs, g_vals, g_star, g_band, g_sigma, g_i, g_low, g_high,
                   g_bs, g_iv, g_result, g_loops, g_exc>>

\* Line 180 with a sigma argument: nothing to resolve.
GreeksGivenSigma ==
    /\ g_entry = "compute_greeks" /\ g_pc = "start"
    /\ ~(g_S <= 0 \/ g_K <= 0 \/ g_T <= 0)
    /\ g_sigma_arg.some
    /\ g_pc' = "resolved"
    /\ UNCHANGED <<gkInputs, g_vals, g_star, g_band, g_sigma, g_i, g_low, g_high,
                   g_bs, g_iv, g_result, g_loops, g_exc>>

\* The local sigma of compute_greeks at line 185.
ResolvedSigma == IF g_sigma_arg.some THEN g_sigma_arg.v ELSE g_iv

\* Lines 185-186
GreeksSigmaNonPositive ==
    /\ g_pc = "resolved"
    /\ ResolvedSigma <= 0
    /\ g_pc' = "returned"
    /\ UNCHANGED <<gkInputs, g_vals, g_star, g_band, g_sigma, g_i, g_low, g_high,
                   g_bs, g_iv, g_result, g_loops, g_exc>>

\* Lines 188-221: a library call raises before the dictionary is assigned;
\* the except clause logs and the zero dictionary is returned.
GreeksPartialsRaise ==
    /\ g_pc = "resolved"
    /\ ResolvedSigma > 0
    /\ D1Raises(g_num) \/ ExpRaises(g_num)
    /\ g_exc' = Append(g_exc, IF D1Raises(g_num) THEN "ValueError"
                                                 ELSE "OverflowError")
    /\ g_pc' = "returned"
    /\ UNCHANGED <<gkInputs, g_vals, g_star, g_band, g_sigma, g_i, g_low, g_high,
                   g_bs, g_iv, g_result, g_loops>>

\* Lines 188-219: the dictionary is assigned in one statement.
GreeksPartials ==
    /\ g_pc = "resolved"
    /\ ResolvedSigma > 0
    /\ ~D1Raises(g_num) /\ ~ExpRaises(g_num)
    /\ g_result' = Partials(ResolvedSigma)
    /\ \E cdf \in CdfValues, pdf \in PdfValues :
         g_vals' = [delta |-> Delta(g_type, cdf),
                    gamma |-> Gamma(pdf, g_S, ResolvedSigma, g_T),
                    vega |-> Vega(pdf, g_S, g_T)]
    /\ g_pc' = "returned"
    /\ UNCHANGED <<gkInputs, g_star, g_band, g_sigma, g_i, g_low, g_high,
                   g_bs, g_iv, g_loops, g_exc>>

GkNext ==
    \/ BsReturnZero /\ UNCHANGED gkOthers
    \/ BsRaise /\ UNCHANGED gkOthers
    \/ BsValue /\ UNCHANGED gkOthers
    \/ IvGuard /\ UNCHANGED gkOthers
    \/ IvFloorRaise /\ UNCHANGED gkOthers
    \/ IvFloor /\ UNCHANGED gkOthers
    \/ IvSeed /\ UNCHANGED gkOthers
    \/ NewtonExhausted /\ UNCHANGED gkOthers
    \/ NewtonRaises /\ UNCHANGED gkOthers
    \/ NewtonConverged /\ UNCHANGED gkOthers
    \/ NewtonFlat /\ UNCHANGED gkOthers
    \/ NewtonStep /\ UNCHANGED gkOthers
    \/ BisectRaises /\ UNCHANGED gkOthers
    \/ BisectConverged /\ UNCHANGED gkOthers
    \/ BisectHalve /\ UNCHANGED gkOthers
    \/ BisectExhausted /\ UNCHANGED gkOthers
    \/ GreeksGuard /\ UNCHANGED gkOthers
    \/ GreeksNoPrice /\ UNCHANGED gkOthers
    \/ GreeksResolve /\ UNCHANGED gkOthers
    \/ GreeksGivenSigma /\ UNCHANGED gkOthers
    \/ GreeksSigmaNonPositive /\ UNCHANGED gkOthers
    \/ GreeksPartialsRaise /\ UNCHANGED gkOthers
    \/ GreeksPartials /\ UNCHANGED gkOthers

GreeksSpec == GkInit /\ [][GkNext]_gkVars

\* ------------------------------------------------------- chain assembler
\* The assembler has the spot price and the options of the window.
ChainInit ==
    /\ c_spot \in {0, 2}
    /\ c_options \in OptionLists
    /\ c_market = << >>
    /\ c_T = 0
    /\ c_k = 0
    /\ c_grouped = << >>
    /\ c_chain = << >>
    /\ c_pc = "start"
    /\ ChOthersIdle

\* endpoints.py 252-253, 260-261: no spot price or no options, no chain.
ChainNothing ==
    /\ c_pc = "start"
    /\ c_spot = 0 \/ Len(c_options) = 0
    /\ c_pc' = "failed"
    /\ UNCHANGED <<c_spot, c_options, c_market, c_T, c_k, c_grouped, c_chain>>

\* endpoints.py 266-270: the batch fetch and the time to expiry
\* (parse_expiry_to_T gives 0.0 for an unreadable expiry, else at least a
\* day).
ChainFetch ==
    /\ c_pc = "start"
    /\ c_spot # 0 /\ Len(c_options) > 0
    /\ c_market' \in MarketMaps(c_options)
    /\ c_T' \in {0, 1}
    /\ c_k' = 1
    /\ c_pc' = "loop"
    /\ UNCHANGED <<c_spot, c_options, c_grouped, c_chain>>

\* endpoints.py 274-305: one pass of the loop body.
ChainRow ==
    /\ c_pc = "loop"
    /\ c_k <= Len(c_options)
    /\ LET op == c_options[c_k]
           ltp == Ltp(c_market, op.token)
           key == RowKey(op)
           row == IF key \in DOMAIN c_grouped THEN c_grouped[key]
                  ELSE NewRow(Rupees(op.strike))
       IN  \E greeks \in GreeksResults(c_spot, op.strike, c_T, ltp) :
              c_grouped' =
                  (key :> WithSide(row, OptType(op), Side(ltp, op.token, greeks)))
                  @@ c_grouped
    /\ c_k' = c_k + 1
    /\ UNCHANGED <<c_spot, c_options, c_market, c_T, c_chain, c_pc>>

\* endpoints.py 284-290 and 318-320: compute_greeks lets an exception of
\* compute_iv out; the handler answers with an error and no chain.
ChainRowRaises ==
    /\ c_pc = "loop"
    /\ c_k <= Len(c_options)
    /\ LET op == c_options[c_k]
       IN  ReachesSolver(c_spot, op.strike, c_T, Ltp(c_market, op.token))
    /\ c_pc' = "failed"
    /\ UNCHANGED <<c_spot, c_options, c_market, c_T, c_k, c_grouped, c_chain>>

\* endpoints.py 308-314: the rows sorted by strike are returned.
ChainSort ==
    /\ c_pc = "loop"
    /\ c_k = Len(c_options) + 1
    /\ c_chain' = SortedByStrike(Values(c_grouped))
    /\ c_pc' = "returned"
    /\ UNCHANGED <<c_spot, c_options, c_market, c_T, c_k, c_grouped>>

ChainNext ==
    \/ ChainNothing /\ UNCHANGED chOthers
    \/ ChainFetch /\ UNCHANGED chOthers
    \/ ChainRow /\ UNCHANGED chOthers
    \/ ChainRowRaises /\ UNCHANGED chOthers
    \/ ChainSort /\ UNCHANGED chOthers

ChainSpec == ChainInit /\ [][ChainNext]_chVars

TypeOK ==
    /\ pc \in {"start", "request", "await", "handle", "backoff", "endbatch",
               "pace", "complete", "returned", "raised"}
    /\ attempt \in 0..(max_retries + 1)
    /\ batch_num \in 0..Len(batches)


\* ------------------------------------------------------------------ claims
Final(b) == status[b] \in {"DONE", "ABANDONED"}

DoneBatches == {b \in DOMAIN status : status[b] = "DONE"}

\* No attempt of any batch broke off in the middle of a merge.
NoMidMergeFailure == \A b \in DOMAIN kinds : "malformed" \notin kinds[b]

\* The attempt loop of batch b is over.
LoopOver(b) ==
    \/ b < batch_num
    \/ b = batch_num /\ pc \in {"endbatch", "pace", "complete", "returned"}

TotalRequests == SumOver(requests, DOMAIN requests)

\* ceil(n / batch_size)
CeilBatches == (Len(tokens) + batch_size - 1) \div batch_size

\* C1: when the fetch returns and every attempt ended as success,
\* rate-limited, other error (or a thrown call), the key set of the returned
\* map is exactly the union of the tokens delivered to the batches that ended
\* DONE; abandoned batches contribute nothing and hide nothing.
C1_KeysAreSuccessfulDeliveries ==
    (pc = "returned" /\ NoMidMergeFailure) =>
        /\ DOMAIN retval = UNION {delivered[b] : b \in DoneBatches}
        /\ \A b \in DOMAIN status :
              status[b] = "ABANDONED" => delivered[b] = {}

C1_Witness ==
    /\ pc = "returned"
    /\ NoMidMergeFailure
    /\ \E a, d \in DOMAIN status :
          /\ a < d
          /\ status[a] = "ABANDONED"
          /\ status[d] = "DONE"
          /\ delivered[d] # {}
          /\ delivered[d] \subseteq DOMAIN retval

\* C2: the fetch never raises to its caller, whatever the upstream does; what
\* it hands back is a map over requested tokens.
C2_NeverRaises ==
    /\ pc # "raised"
    /\ pc = "returned" => DOMAIN retval \subseteq Range(tokens)

C2_Witness ==
    /\ pc = "returned"
    /\ \E b \in DOMAIN kinds : {"raise", "none", "malformed", "error"} \subseteq kinds[b]

\* C3: a rate-limit answer to attempt k < max_retries is followed by a wait
\* of exactly base_delay * 2^k and then by the next request of the same
\* batch; a batch rate-limited twice and successful on its third attempt has
\* its data in the map after a cumulative backoff of at least
\* base_delay + 2 * base_delay.
C3_ExponentialBackoff ==
    /\ (pc = "backoff" /\ response.kind = "ratelimit") =>
          /\ attempt < max_retries
          /\ wait_time = base_delay * Pow2(attempt)
    /\ pc = "request" =>
          /\ requests[batch_num] = attempt
          /\ waited[batch_num] = base_delay * (Pow2(attempt) - 1)
    /\ \A b \in DOMAIN status :
          (status[b] = "DONE" /\ kinds[b] = {"ratelimit", "success"}
              /\ requests[b] = 3) =>
                /\ waited[b] >= base_delay + 2 * base_delay
                /\ delivered[b] \subseteq DOMAIN result

C3_Witness ==
    \E b \in DOMAIN status :
        /\ status[b] = "DONE"
        /\ kinds[b] = {"ratelimit", "success"}
        /\ requests[b] = 3
        /\ delivered[b] # {}

\* C4: a batch rate-limited on every attempt is requested exactly
\* max_retries + 1 times and then abandoned; the fetch goes on: at the return
\* every batch has been requested and the deliveries of the DONE batches are
\* in the returned map.
C4_RateLimitExhaustion ==
    /\ \A b \in DOMAIN status :
          kinds[b] = {"ratelimit"} =>
              /\ requests[b] <= max_retries + 1
              /\ status[b] = "ABANDONED" => requests[b] = max_retries + 1
              /\ LoopOver(b) =>
                    status[b] = "ABANDONED" /\ requests[b] = max_retries + 1
    /\ pc = "returned" =>
          \A c \in DOMAIN status :
              /\ requests[c] >= 1
              /\ status[c] = "DONE" => delivered[c] \subseteq DOMAIN retval

C4_Witness ==
    /\ pc = "returned"
    /\ \E a, d \in DOMAIN status :
          /\ a < d
          /\ kinds[a] = {"ratelimit"}
          /\ status[a] = "ABANDONED"
          /\ requests[a] = max_retries + 1
          /\ status[d] = "DONE"
          /\ delivered[d] # {}

\* An answer of one of the kinds in `errs` ends its batch at once: no backoff
\* follows it, no request follows it, and the batch is ABANDONED.
AbandonedAtOnce(errs) ==
    /\ pc = "backoff" => response.kind \notin errs
    /\ pc \in {"request", "await"} => kinds[batch_num] \cap errs = {}
    /\ \A b \in DOMAIN status :
          (kinds[b] \cap errs # {} /\ LoopOver(b)) => status[b] = "ABANDONED"

\* C5 as stated: every error other than the rate-limit code (an error
\* envelope, a missing response, a thrown call) abandons the batch after that
\* single attempt, without backoff and without a further request.
C5_AnyErrorAbandonsAtOnce == AbandonedAtOnce({"error", "none", "raise"})

\* C5 as amended: an error envelope carrying another code than the
\* rate-limit code abandons the batch after that single attempt, without
\* backoff and without a further request.
C5_ErrorEnvelopeAbandonsAtOnce == AbandonedAtOnce({"error"})

C5_Witness ==
    /\ pc = "returned"
    /\ \E b \in DOMAIN status :
          /\ kinds[b] = {"error"}
          /\ requests[b] = 1
          /\ waited[b] = 0
          /\ status[b] = "ABANDONED"

\* C6: DONE and ABANDONED are absorbing: a batch leaves only PENDING, and
\* once it is DONE or ABANDONED no request is issued for it any more.
C6_FinalStatesAbsorbing ==
    [][\A b \in DOMAIN status :
          Final(b) => /\ status'[b] = status[b]
                      /\ requests'[b] = requests[b]]_vars

C6_Witness ==
    /\ pc = "returned"
    /\ \E a, d \in DOMAIN status :
          /\ status[a] = "DONE"
          /\ status[d] = "ABANDONED"
          /\ requests[a] >= 2
          /\ requests[d] >= 2

\* C7: batches are issued one after the other in list order: a batch is
\* requested only when every earlier batch is DONE or ABANDONED, and at most
\* one request is in flight.
C7_Sequential ==
    /\ Cardinality(inFlight) <= 1
    /\ inFlight \subseteq {batch_num}
    /\ \A b \in DOMAIN requests :
          requests[b] > 0 =>
              \A c \in 1..(b - 1) : Final(c) /\ requests[c] > 0

C7_Witness ==
    /\ pc = "await"
    /\ batch_num = 2
    /\ inFlight = {2}
    /\ Final(1)

\* C8: exactly one pacing delay lies between the end of a batch and the
\* first request of the next one, whatever the outcome of the earlier batch.
C8_OnePacingDelay ==
    \A b \in DOMAIN paces :
        /\ paces[b] <= 1
        /\ paces[b] = 1 => Final(b)
        /\ (b + 1 \in DOMAIN requests /\ requests[b + 1] >= 1) => paces[b] = 1

C8_Witness ==
    \E b \in DOMAIN paces :
        /\ b + 1 \in DOMAIN requests
        /\ requests[b + 1] >= 1
        /\ status[b] = "ABANDONED"
        /\ kinds[b] = {"error"}
        /\ paces[b] = 1

\* C9: for an empty token list the call returns an empty map at once: it goes
\* from its entry straight to the return, issues no request and sleeps
\* neither for backoff nor for pacing.
C9_EmptyListReturnsAtOnce ==
    Len(tokens) = 0 =>
        /\ pc \in {"start", "returned"}
        /\ DOMAIN retval = {}
        /\ DOMAIN requests = {}
        /\ DOMAIN paces = {}
        /\ wait_time = 0

C9_Witness == Len(tokens) = 0 /\ pc = "returned"

\* C10: the fetch terminates; when it returns every batch of the plan has
\* been requested at least once; it never issues more than
\* (max_retries + 1) * ceil(n / batch_size) requests.
C10_TerminatesWithinBudget ==
    /\ <>(pc = "returned")
    /\ [](pc = "returned" =>
            /\ Len(tokens) > 0 => DOMAIN requests = 1..CeilBatches
            /\ \A b \in DOMAIN requests : requests[b] >= 1)
    /\ [](TotalRequests <= (max_retries + 1) * CeilBatches)

C10_Witness ==
    /\ pc = "returned"
    /\ CeilBatches = 2
    /\ TotalRequests = (max_retries + 1) * CeilBatches


\* ------------------------------------------------ claims: fetcher, continued
\* The batches of the plan, one after the other.
RECURSIVE Flatten(_)
Flatten(bs) == IF Len(bs) = 0 THEN << >> ELSE Head(bs) \o Flatten(Tail(bs))

\* The tokens of the records of an answer.
FetchedTokens(resp) == {resp.fetched[i].symbolToken : i \in 1..Len(resp.fetched)}

AllDelivered == UNION {delivered[b] : b \in DOMAIN delivered}

\* C24: the plan cuts the token list into consecutive batches of batch_size:
\* there are ceil(n / batch_size) batches, none is empty, all but the last
\* hold exactly batch_size tokens, the batches laid end to end are the token
\* list (each position of the list is in exactly one batch), and requests
\* are issued for the batches of this plan only.
C24_ConsecutiveBatches ==
    (pc # "start" /\ Len(tokens) > 0) =>
        /\ Len(batches) = CeilBatches
        /\ \A k \in 1..Len(batches) :
              /\ Len(batches[k]) >= 1
              /\ k < Len(batches) => Len(batches[k]) = batch_size
        /\ Flatten(batches) = tokens
        /\ \A i \in 1..Len(tokens) :
              batches[((i - 1) \div batch_size) + 1][((i - 1) % batch_size) + 1]
                  = tokens[i]
        /\ DOMAIN requests = 1..Len(batches)

\* Seven tokens were fetched in a full batch and a batch of two.
C24_Witness ==
    /\ pc = "returned"
    /\ Len(tokens) = 7
    /\ Len(batches) = 2
    /\ Len(batches[2]) = 2
    /\ requests[1] >= 1 /\ requests[2] >= 1

\* C27: processing a well-formed success answer merges its records once and
\* ends the batch as DONE, whether or not tokens of the batch are missing
\* from it; tokens it does not carry are not added; a batch answered by a
\* success at its first attempt is requested once, and those of its tokens
\* that no answer delivered are absent from the returned map.
C27_PartialSuccessIsDone ==
    /\ [][(pc = "handle" /\ response.kind = "success") =>
            /\ status'[batch_num] = "DONE"
            /\ pc' = "endbatch"
            /\ DOMAIN result' = DOMAIN result \cup FetchedTokens(response)
            /\ \A t \in Range(batches[batch_num]) \ FetchedTokens(response) :
                  t \in DOMAIN result' <=> t \in DOMAIN result]_vars
    /\ [](\A b \in DOMAIN status :
            (kinds[b] = {"success"} /\ LoopOver(b)) =>
                /\ status[b] = "DONE"
                /\ requests[b] = 1
                /\ pc = "returned" =>
                      \A t \in Range(batches[b]) \ AllDelivered :
                          t \notin DOMAIN retval)

\* A batch answered once, by a success carrying only part of its tokens,
\* ended DONE and the rest of its tokens is not in the returned map.
C27_Witness ==
    /\ pc = "returned"
    /\ \E b \in DOMAIN status :
          /\ kinds[b] = {"success"}
          /\ status[b] = "DONE"
          /\ requests[b] = 1
          /\ delivered[b] # {}
          /\ \E t \in Range(batches[b]) : t \notin DOMAIN retval

\* C29: an attempt that ends in a thrown call or in a missing response is
\* retried like a rate-limited one: for attempt k < max_retries the fetcher
\* sleeps base_delay * 2^k and requests the same batch again, at attempt
\* max_retries the batch is abandoned; a batch that only ever threw is
\* abandoned after exactly max_retries + 1 requests; records merged before a
\* failure in the middle of a merge stay in the map.
C29_ExceptionsAreRetried ==
    /\ [][(pc = "handle" /\ response.kind \in {"raise", "none", "malformed"}) =>
            /\ DOMAIN result' = DOMAIN result \cup FetchedTokens(response)
            /\ batch_num' = batch_num
            /\ IF attempt < max_retries
                 THEN /\ pc' = "backoff"
                      /\ wait_time' = base_delay * Pow2(attempt)
                      /\ status' = status
                 ELSE /\ pc' = "endbatch"
                      /\ status'[batch_num] = "ABANDONED"]_vars
    /\ [][pc = "backoff" =>
            /\ pc' = "request"
            /\ batch_num' = batch_num
            /\ attempt' = attempt + 1]_vars
    /\ [](\A b \in DOMAIN status :
            (kinds[b] # {} /\ kinds[b] \subseteq {"raise", "none"}
                /\ LoopOver(b)) =>
                /\ status[b] = "ABANDONED"
                /\ requests[b] = max_retries + 1
                /\ waited[b] = base_delay * (Pow2(max_retries) - 1))

\* A batch whose attempts threw, one of them in the middle of a merge, was
\* abandoned after max_retries + 1 requests and the merged records are in
\* the returned map.
C29_Witness ==
    /\ pc = "returned"
    /\ \E b \in DOMAIN status :
          /\ kinds[b] = {"raise", "none", "malformed"}
          /\ status[b] = "ABANDONED"
          /\ requests[b] = max_retries + 1
          /\ delivered[b] # {}
          /\ delivered[b] \subseteq DOMAIN retval

\* C30 as stated: the map only grows; an attempt that does not end its batch
\* as DONE leaves the map unchanged; the map changes only while a response
\* with success status is processed.
C30_FailedAttemptLeavesMapUnchanged ==
    [][/\ DOMAIN result \subseteq DOMAIN result'
       /\ (pc = "handle" /\ status'[batch_num] # "DONE") => result' = result
       /\ result' # result =>
             pc = "handle" /\ response.kind \in {"success", "malformed"}]_vars

\* C30 as amended: the map only grows; an attempt that ends on a rate-limit
\* answer, another error code, a missing response or a thrown call leaves
\* the map unchanged; the map changes only while a response with success
\* status is processed, and when that processing fails on a malformed record
\* the records merged before the failure stay although the attempt is
\* retried.
C30_MapOnlyGrows ==
    [][/\ DOMAIN result \subseteq DOMAIN result'
       /\ (pc = "handle" /\ response.kind \notin {"success", "malformed"})
             => result' = result
       /\ (pc = "handle" /\ response.kind = "malformed")
             => DOMAIN result' = DOMAIN result \cup FetchedTokens(response)
       /\ result' # result =>
             pc = "handle" /\ response.kind \in {"success", "malformed"}]_vars

\* A rate-limited batch that then failed in the middle of a merge kept the
\* records merged before the failure.
C30_Witness ==
    /\ pc = "returned"
    /\ \E b \in DOMAIN status :
          /\ kinds[b] = {"ratelimit", "malformed"}
          /\ status[b] = "ABANDONED"
          /\ delivered[b] # {}
          /\ delivered[b] \subseteq DOMAIN retval


\* C23 as stated: once the caller's deadline has fired during a backoff
\* wait or a pacing wait the fetcher issues no further request: it returns
\* the map accumulated so far.
C23_DeadlineStopsFetch ==
    [][deadline = "fired" =>
          /\ requests' = requests
          /\ result' = result]_<<vars, dlVars>>

\* ------------------------------------------- claims: strike window selector
\* The selector ran with a target on a non-empty strike column.
Windowed == sel_pc = "done" /\ atm_strike # 0 /\ Len(opt_strikes) > 0

\* Number of strikes strictly below the target.
StrikesBelow == Cardinality({k \in 1..Len(unique_strikes) : unique_strikes[k] < atm_strike})

ExampleStrikes == <<100, 150, 200, 250, 300, 350, 400>>

ExampleRun ==
    /\ sel_pc = "done"
    /\ unique_strikes = ExampleStrikes
    /\ atm_strike = 225
    /\ strike_range = 2

C13_WindowNeverEmpty ==
    (sel_pc = "done" /\ Len(opt_strikes) > 0) => sel_strikes # {}

\* The window is not cut short by either end of the strike sequence.
Unclipped ==
    /\ idx - strike_range >= 0
    /\ idx + strike_range <= Len(unique_strikes) - 1

\* Strikes of the window strictly above and strictly below the target.
WindowAbove == Cardinality({k \in Range(target_strikes) : k > atm_strike})
WindowBelow == Cardinality({k \in Range(target_strikes) : k < atm_strike})

\* C28 as stated: a window that is not clipped holds exactly N strikes
\* strictly above the target and exactly N strictly below it, whether or
\* not the target is one of the strikes.
C28_WindowSymmetric ==
    (Windowed /\ Unclipped) =>
        /\ WindowAbove = strike_range
        /\ WindowBelow = strike_range

\* ------------------------------------------------ claims: chain assembler
\* The rows of the chain that carry the strike of an option.
RowsOf(op) ==
    {i \in 1..Len(c_chain) : c_chain[i].strike = Rupees(op.strike)}

\* The record of an option's side in a row.
SideOf(row, op) == IF op.symbol = "CE" THEN row.ce ELSE row.pe

OptionsGiven == {c_options[i] : i \in 1..Len(c_options)}

\* C14: the returned chain is sorted strictly ascending by strike (so it has
\* at most one row per strike), and every option's record sits in the one
\* row of its strike, the call and the put of a strike in the same row.
C14_OneSortedRowPerStrike ==
    c_pc = "returned"
    => /\ \A i, j \in 1..Len(c_chain) :
              i < j => RupeesLess(c_chain[i].strike, c_chain[j].strike)
       /\ \A op \in OptionsGiven :
              \E i \in 1..Len(c_chain) :
                  /\ RowsOf(op) = {i}
                  /\ SideOf(c_chain[i], op).set
                  /\ SideOf(c_chain[i], op).token = op.token

\* A chain of two rows was returned for options listed in descending strike
\* order, the lower strike with its call and its put in one row.
C14_Witness ==
    /\ c_pc = "returned"
    /\ Len(c_options) = 3
    /\ c_options[1].strike > c_options[2].strike
    /\ c_options[2].strike = c_options[3].strike
    /\ Len(c_chain) = 2
    /\ c_chain[1].ce.set /\ c_chain[1].pe.set

\* C15: every option of the window has its side filled in a row of the
\* returned chain whatever the fetch handed back; an option whose token is
\* not in the fetched map gets price 0 and the all-zero Greeks.
C15_MissingTokenZeroFilled ==
    c_pc = "returned"
    => \A op \in OptionsGiven :
          \E i \in 1..Len(c_chain) :
              /\ c_chain[i].strike = Rupees(op.strike)
              /\ SideOf(c_chain[i], op).set
              /\ op.token \notin DOMAIN c_market
                 => /\ SideOf(c_chain[i], op).price = 0
                    /\ SideOf(c_chain[i], op).greeks = ZeroGreeks

\* A chain was returned in which the middle strike has no quote at all
\* while its neighbours were priced.
C15_Witness ==
    /\ c_pc = "returned"
    /\ c_T > 0
    /\ Len(c_chain) = 3
    /\ \A op \in OptionsGiven :
          op.token \in DOMAIN c_market <=> op.strike # 10050
    /\ c_chain[1].ce.set /\ c_chain[1].ce.greeks # ZeroGreeks
    /\ c_chain[2].strike = Rupees(10050)
    /\ c_chain[3].ce.set /\ c_chain[3].ce.greeks # ZeroGreeks

\* ------------------------------------- claims: pricer, IV solver and Greeks
\* The call's own S, K and T are all positive.
PositiveSKT == g_S > 0 /\ g_K > 0 /\ g_T > 0

\* The intrinsic floor of the call, in hundredths of a money unit.
Floor ==
    IF g_type = "CE"
      THEN (IF 100 * g_S - g_K * g_disc > 0 THEN 100 * g_S - g_K * g_disc
            ELSE 0)
      ELSE (IF g_K * g_disc - 100 * g_S > 0 THEN g_K * g_disc - 100 * g_S
            ELSE 0)

\* compute_greeks was called without sigma and with a missing or
\* non-positive price.
NothingToResolve ==
    /\ ~g_sigma_arg.some
    /\ ~g_price_arg.some \/ g_price_arg.v <= 0

\* compute_greeks has a resolved sigma and it is not positive.
ResolvedNonPositive ==
    /\ g_pc \in {"resolved", "returned"}
    /\ PositiveSKT
    /\ ~NothingToResolve
    /\ ResolvedSigma <= 0

\* C16: degenerate inputs never fail and give the neutral value.  bs_price
\* called with T <= 0, sigma <= 0, S <= 0 or K <= 0 returns 0 in one step and
\* never raises; compute_greeks called with S <= 0, K <= 0 or T <= 0, or
\* without sigma and with a missing or non-positive price, returns the
\* all-zero dictionary without entering the solver or the partials; with a
\* resolved sigma <= 0 it returns the all-zero dictionary.
C16_DegenerateInputsGiveZero ==
    /\ (/\ g_entry = "bs_price"
        /\ g_T <= 0 \/ g_sigma_arg.v <= 0 \/ g_S <= 0 \/ g_K <= 0)
       => /\ g_pc \in {"start", "returned"}
          /\ g_bs = 0
          /\ g_exc = << >>
    /\ (/\ g_entry = "compute_greeks"
        /\ ~PositiveSKT \/ NothingToResolve)
       => /\ g_pc \in {"start", "returned"}
          /\ g_result = ZeroGreeks
          /\ g_loops = << >>
          /\ g_exc = << >>
    /\ (g_entry = "compute_greeks" /\ ResolvedNonPositive)
       => /\ g_pc # "raised"
          /\ g_result = ZeroGreeks

\* compute_greeks resolved a price below the intrinsic floor to sigma 0 and
\* returned the all-zero dictionary.
C16_Witness ==
    /\ g_entry = "compute_greeks"
    /\ g_pc = "returned"
    /\ PositiveSKT
    /\ ~g_sigma_arg.some
    /\ g_price_arg.some /\ g_price_arg.v > 0
    /\ g_iv = 0
    /\ g_result = ZeroGreeks

\* The inputs on which compute_iv must return 0 at once: a non-positive
\* price, S, K or T, or a price below the floor (the floor has a value only
\* when exp(-r*T) has one).
IvMustReturnZero ==
    \/ g_price_arg.v <= 0 \/ g_S <= 0 \/ g_K <= 0 \/ g_T <= 0
    \/ g_num # "exp_range" /\ 100 * g_price_arg.v < Floor

\* C17: compute_iv called with a non-positive market price, S, K or T, or
\* with a market price below the intrinsic floor, returns 0 in one step: it
\* enters neither the Newton loop nor the bisection loop and raises nothing.
C17_ZeroWithoutIterations ==
    (g_entry = "compute_iv" /\ IvMustReturnZero)
    => /\ g_pc \in {"start", "returned"}
       /\ g_iv = 0
       /\ g_loops = << >>
       /\ g_exc = << >>

\* compute_iv returned 0 for a positive price below the floor.
C17_Witness ==
    /\ g_entry = "compute_iv"
    /\ g_pc = "returned"
    /\ g_price_arg.v > 0 /\ PositiveSKT
    /\ 100 * g_price_arg.v < Floor
    /\ g_iv = 0
    /\ g_loops = << >>

\* C18: compute_iv never raises, whatever its input: every ending of the
\* Newton loop without convergence enters the bisection fallback, and the
\* fallback returns a value.
C18_SolverNeverRaises ==
    g_entry = "compute_iv"
    => /\ g_pc # "raised"
       /\ g_pc = "bisect" => g_loops = <<"newton", "bisect">>

\* C19: compute_greeks never lets a numeric exception out, and the
\* dictionary it returns is all-zero or has all five fields computed from
\* the one resolved sigma.
C19_GreeksNeverRaise ==
    g_entry = "compute_greeks"
    => /\ g_pc # "raised"
       /\ g_pc = "returned"
          => g_result \in {ZeroGreeks, Partials(ResolvedSigma)}

\* C20: round trip.  The market price handed to compute_iv is the model
\* price at the volatility g_star, with 0.05 <= g_star <= 2.0 and positive
\* S, K, T; the value returned is within 1e-4 of g_star.  With
\* volatilities held in thousandths that is equality.
C20_RoundTrip ==
    (/\ g_entry = "compute_iv"
     /\ g_pc = "returned"
     /\ g_loops # << >>
     /\ g_star >= 50 /\ g_star <= 2000)
    => g_iv = g_star

\* C21: every dictionary compute_greeks returns has delta in [-1, 1], in
\* [0, 1] for a call and in [-1, 0] for a put, and gamma and vega not below
\* zero.
C21_GreeksInRange ==
    (g_entry = "compute_greeks" /\ g_pc = "returned") =>
        /\ g_vals.delta >= -CdfUnit /\ g_vals.delta <= CdfUnit
        /\ g_type = "CE" => g_vals.delta >= 0
        /\ g_type = "PE" => g_vals.delta <= 0
        /\ g_vals.gamma >= 0
        /\ g_vals.vega >= 0

\* A put on valid inputs returned with a negative delta and positive gamma
\* and vega.
C21_Witness ==
    /\ g_entry = "compute_greeks" /\ g_pc = "returned"
    /\ PositiveSKT
    /\ g_type = "PE"
    /\ g_result # ZeroGreeks
    /\ g_vals.delta < 0 /\ g_vals.gamma > 0 /\ g_vals.vega > 0

\* The volatility is in [lo, 5.0] (thousandths).
InDomain(sigma, lo) == sigma >= lo /\ sigma <= SigmaCap

\* C25 as stated: the seed of the Newton loop is in [0.01, 5.0], sigma is in
\* [0.001, 5.0] after every Newton step, the loop index never passes 100, and
\* the value compute_iv returns is 0 or in [0.001, 5.0].
C25_SigmaStaysInDomain ==
    /\ (g_pc = "newton" /\ g_i = 0) => InDomain(g_sigma, SeedFloor)
    /\ g_pc = "newton" => InDomain(g_sigma, SigmaFloor)
    /\ g_pc = "newton" => g_i <= max_iterations
    /\ (g_entry = "compute_iv" /\ g_pc = "returned") =>
           (g_iv = 0 \/ InDomain(g_iv, SigmaFloor))

\* compute_iv has returned out of _bisection_iv.
BisectionReturned ==
    /\ g_entry = "compute_iv"
    /\ g_pc = "returned"
    /\ g_loops = <<"newton", "bisect">>

\* The volatility that prices the option lies inside the bracket.
StarInBracket == g_star > SigmaFloor /\ g_star < SigmaCap

\* C26 as stated: whatever the market price that passed the checks, the
\* volatility _bisection_iv returns prices the option within the tolerance,
\* after at most 100 iterations.
C26_BisectionAlwaysConverges ==
    BisectionReturned =>
        /\ Within(g_iv, g_star, g_band)
        /\ g_i <= max_iterations

\* C26, amended: _bisection_iv returns after at most 100 iterations; when the
\* volatility that prices the option lies inside (0.001, 5.0) the returned
\* value prices it within the tolerance; a value that does not is the
\* midpoint of the bracket left after all 100 iterations.
C26_BisectionConvergesInBracket ==
    BisectionReturned =>
        /\ g_i <= max_iterations
        /\ StarInBracket => Within(g_iv, g_star, g_band)
        /\ ~Within(g_iv, g_star, g_band) =>
              /\ g_i = max_iterations
              /\ g_iv = Mid(g_low, g_high)

\* The bisection halved the bracket and then met the tolerance.
C26_Witness ==
    /\ BisectionReturned
    /\ StarInBracket
    /\ g_i > 1 /\ g_i < max_iterations
    /\ g_band = 0
    /\ g_iv = g_star

\* ------------------------------- claims: concurrent calls of compute_greeks
\* C22: two calls of compute_greeks with the same arguments, interleaved
\* with each other and with a third call in any order, hand their callers
\* the same outcome; and no call works on a dictionary of another call.
C22_Deterministic ==
    /\ (q_pc["first"] = "done" /\ q_pc["second"] = "done")
          => q_out["first"] = q_out["second"]
    /\ \A c, d \in Calls :
          (c # d /\ q_pc[c] # "start" /\ q_pc[d] # "start")
             => q_result[c] # q_result[d]

\* Both calls returned the computed dictionary although the third call, on
\* other arguments, built a different one while the first was running.
C22_Witness ==
    /\ q_pc["first"] = "done" /\ q_pc["second"] = "done"
    /\ q_pc["other"] = "done"
    /\ q_out["first"].value # ZeroGreeks
    /\ q_out["other"].value # q_out["first"].value
    /\ q_result["other"] < q_result["first"]
    /\ q_result["first"] < q_result["second"]

====
